---- MODULE Spec2Model ----
(***************************************************************************)
(* Model of sw.js, the service worker of Mock Test Pro.                    *)
(*                                                                         *)
(* sw.js registers two sets of listeners: lines 1-400 (listener set 1) and *)
(* lines 401-602 (listener set 2).  Every event is dispatched to the       *)
(* listeners of both sets, in registration order.                          *)
(*                                                                         *)
(* Six specifications share the variables:                                 *)
(*   Spec        install and activate                                      *)
(*   MsgSpec     the activated worker receiving control messages           *)
(*   FetchSpec   the activated worker intercepting requests                *)
(*   StorageSpec document requests while partition operations may fail     *)
(*   SyncSpec    the background-sync drains of the offline queues          *)
(*   NotifSpec   push and notificationclick events                         *)
(***************************************************************************)
EXTENDS Integers, Sequences, FiniteSets, TLC

VARIABLES
    swState,      \* lifecycle state of the worker
    skipWaiting,  \* self.skipWaiting() has been called
    caches,       \* CacheStorage: the partitions, in creation order
    inst,         \* progress of the two install listeners
    act,          \* progress of the two activate listeners
    msgCount,     \* control messages received so far
    port,         \* what the last message's reply port (event.ports[0]) got
    lastMsg,      \* event.data of the last control message
    quiz,         \* cacheQuizData calls in progress
    reqs,         \* fetch events being handled
    puts,         \* cache.put calls started and not awaited
    nreq,         \* fetch events dispatched so far
    localStorage, \* the offline queues, by storage key
    server,       \* what sendToServer has delivered, in order
    drains,       \* sync handlers in progress
    nsync,        \* sync events dispatched so far
    enqueued,     \* the items the page has queued so far, in order
    unhandled,    \* rejections of cache.put calls that nothing handles
    windows,      \* the window clients that are open, oldest first
    pushes,       \* the push events received so far
    shown,        \* the notifications showNotification has displayed
    clicks        \* notificationclick events being handled

vars == <<swState, skipWaiting, caches, inst, act, msgCount, port, lastMsg, quiz,
          reqs, puts, nreq, localStorage, server, drains, nsync, enqueued,
          unhandled, windows, pushes, shown, clicks>>

lifeVars  == <<swState, skipWaiting, inst, act>>
msgVars   == <<msgCount, port, lastMsg, quiz>>
fetchVars == <<reqs, puts, nreq, unhandled>>
syncVars  == <<localStorage, server, drains, nsync, enqueued>>
notifVars == <<windows, pushes, shown, clicks>>

-----------------------------------------------------------------------------
(* Bounds of the model *)

NumOptional == 2     \* how many entries of OPTIONAL_CACHE are modelled
MaxMessages == 3     \* control messages
MaxRequests == 2     \* fetch events
MaxBody     == 2     \* distinct bodies the network serves for one URL
MaxSyncs    == 3     \* sync events
MaxItems    == 3     \* items the page queues
MaxPushes   == 2     \* push events
MaxClicks   == 2     \* notificationclick events

-----------------------------------------------------------------------------
(* Constants of sw.js.  A cache name is <<logical name, version suffix>>,   *)
(* standing for the string "<logical name>-<version suffix>".               *)

CACHE_NAME    == <<"mock-test-pro", "v1.0.0">>
STATIC_CACHE  == <<"static", "v1.0.0">>
RUNTIME_CACHE == <<"runtime", "v1.0.0">>

\* A partition left by an earlier version of the worker (not a name of sw.js).
OLD_CACHE == <<"static", "v0.9.0">>

VersionOf(name) == name[2]

ESSENTIAL_CACHE == {"/", "/index.html", "/manifest.json"}

OptionalList ==
    <<"/icon-72x72.png", "/icon-96x96.png", "/icon-128x128.png",
      "/icon-144x144.png", "/icon-152x152.png", "/icon-192x192.png",
      "/icon-384x384.png", "/icon-512x512.png", "/icon-1024x1024.png">>

\* The order in which the entries of the list enter the model: the two that
\* urlsToCache (line 402) also names come first.
OptionalPick == <<6, 8, 1, 2, 3, 4, 5, 7, 9>>

\* NumOptional entries of the list of line 13.
OPTIONAL_CACHE ==
    {OptionalList[OptionalPick[i]] :
        i \in 1..(IF NumOptional < 9 THEN NumOptional ELSE 9)}

urlsToCache ==
    {"/", "/index.html", "/manifest.json", "/icon-192x192.png", "/icon-512x512.png"}

location_origin == "https://app.example"

\* The cache key of a URL: <<origin, path>>.  A path given to cache.add,
\* cache.match or cache.put resolves against the worker's own origin.
Key(path) == <<location_origin, path>>

\* A Response is [status, body], the body <<what it is, which one>>.
OkResponse(b) == [status |-> 200, body |-> <<"net", b>>]

\* Not responses: no entry, a rejected fetch, a promise still pending, a
\* rejection given to respondWith.
None    == [status |-> 0, body |-> <<"none", 0>>]
NetFail == [status |-> 0, body |-> <<"fail", 0>>]
Pending == [status |-> 0, body |-> <<"pending", 0>>]
Failure == [status |-> 0, body |-> <<"error", 0>>]

-----------------------------------------------------------------------------
(* CacheStorage.  caches is the sequence of the existing partitions in      *)
(* creation order, each [name, entries], entries a function from the keys   *)
(* stored to their responses.                                               *)

NoEntries == [k \in {} |-> 0]

Names(cs) == {cs[i].name : i \in 1..Len(cs)}

Has(cs, name) == name \in Names(cs)

IndexOf(cs, name) == CHOOSE i \in 1..Len(cs) : cs[i].name = name

Entries(cs, name) ==
    IF Has(cs, name) THEN cs[IndexOf(cs, name)].entries ELSE NoEntries

\* caches.open(name): creates the partition if absent.
Open(cs, name) ==
    IF Has(cs, name) THEN cs ELSE Append(cs, [name |-> name, entries |-> NoEntries])

\* cache.put(key, resp) on the partition called name: overwrites.
Put(cs, name, key, resp) ==
    [i \in 1..Len(cs) |->
        IF cs[i].name = name
        THEN [cs[i] EXCEPT !.entries =
                 [k \in DOMAIN cs[i].entries \cup {key} |->
                     IF k = key THEN resp ELSE cs[i].entries[k]]]
        ELSE cs[i]]

\* caches.delete(name).
DeleteCache(cs, name) == SelectSeq(cs, LAMBDA c : c.name # name)

\* caches.match(key): the entry of the first partition, in creation order,
\* that has the key; None when no partition has it.
MatchAll(cs, key) ==
    LET hits == {i \in 1..Len(cs) : key \in DOMAIN cs[i].entries}
    IN  IF hits = {} THEN None
        ELSE cs[CHOOSE i \in hits : \A j \in hits : i <= j].entries[key]

\* cache.match(key) on one partition.
MatchIn(cs, name, key) ==
    IF key \in DOMAIN Entries(cs, name) THEN Entries(cs, name)[key] ELSE None

-----------------------------------------------------------------------------
(* install: listener 1 (lines 26-60) and listener 2 (lines 412-425)         *)

InstIdle ==
    [down      |-> {},          \* resources that cannot be fetched or stored
     ess       |-> "idle",      \* chain of lines 32-36
     optOpen   |-> "idle",      \* caches.open of line 39
     opt       |-> [u \in OPTIONAL_CACHE |-> "idle"],
     wait1     |-> "none",      \* promise given to waitUntil, line 29
     l2        |-> "idle",      \* chain of lines 415-422
     wait2     |-> "none"]      \* promise given to waitUntil, line 414

\* The install event reaches both listeners: each starts its caches.open
\* calls; listener 2 calls skipWaiting() synchronously (line 424).
InstallEvent ==
    /\ swState = "parsed"
    /\ swState' = "installing"
    /\ \E down \in SUBSET (ESSENTIAL_CACHE \cup OPTIONAL_CACHE) :
          inst' = [inst EXCEPT !.down = down,
                               !.ess = "opening", !.optOpen = "opening",
                               !.wait1 = "pending",
                               !.l2 = "opening", !.wait2 = "pending"]
    /\ skipWaiting' = TRUE
    /\ UNCHANGED <<caches, act, msgVars, fetchVars, syncVars, notifVars>>

\* caches.open(STATIC_CACHE) of line 32 resolves.
EssentialOpen ==
    /\ inst.ess = "opening"
    /\ caches' = Open(caches, STATIC_CACHE)
    /\ inst' = [inst EXCEPT !.ess = "opened"]
    /\ UNCHANGED <<swState, skipWaiting, act, msgVars, fetchVars,
                 syncVars, notifVars>>

\* (mutant) the optional files are added by the same addAll as the
\* essential ones.
EssentialUrlsWithOptional == ESSENTIAL_CACHE \cup OPTIONAL_CACHE

\* The URLs given to cache.addAll at line 35.
EssentialUrls == ESSENTIAL_CACHE

\* cache.addAll(urls) when the resources in failed cannot be fetched or
\* stored: all-or-nothing.
AddAll(cs, name, urls, failed) ==
    IF failed \cap urls # {} \/ ~Has(cs, name) THEN cs
    ELSE [i \in 1..Len(cs) |->
            IF cs[i].name = name
            THEN [cs[i] EXCEPT !.entries =
                     [k \in DOMAIN cs[i].entries \cup {Key(u) : u \in urls} |->
                         IF k \in {Key(u) : u \in urls} THEN OkResponse(1)
                         ELSE cs[i].entries[k]]]
            ELSE cs[i]]

\* cache.addAll(ESSENTIAL_CACHE) of line 35 settles.
EssentialAddAll ==
    /\ inst.ess = "opened"
    /\ caches' = AddAll(caches, STATIC_CACHE, EssentialUrls, inst.down)
    /\ inst' = [inst EXCEPT
                  !.ess = IF inst.down \cap EssentialUrls = {} THEN "ok" ELSE "fail"]
    /\ UNCHANGED <<swState, skipWaiting, act, msgVars, fetchVars,
                 syncVars, notifVars>>

\* caches.open(STATIC_CACHE) of line 39 resolves; the map of line 43 starts
\* one cache.add per optional URL.
OptionalOpen ==
    /\ inst.optOpen = "opening"
    /\ caches' = Open(caches, STATIC_CACHE)
    /\ inst' = [inst EXCEPT !.optOpen = "live",
                            !.opt = [u \in OPTIONAL_CACHE |-> "pending"]]
    /\ UNCHANGED <<swState, skipWaiting, act, msgVars, fetchVars,
                 syncVars, notifVars>>

\* What cache.add(url).catch(...) of lines 44-47 leaves in the partition:
\* the response when it was fetched and stored, nothing when it failed.
OptionalAdd(cs, url, ok) ==
    IF ok THEN Put(cs, STATIC_CACHE, Key(url), OkResponse(1)) ELSE cs

\* One cache.add(url) of line 44 settles.  A handle whose partition has
\* been deleted since it was opened writes to nothing CacheStorage shows.
OptionalAddSettle(url) ==
    /\ inst.opt[url] = "pending"
    /\ LET ok == url \notin inst.down
       IN  /\ caches' = IF inst.optOpen = "live" THEN OptionalAdd(caches, url, ok)
                        ELSE caches
           /\ inst' = [inst EXCEPT !.opt[url] = IF ok THEN "stored" ELSE "failed"]
    /\ UNCHANGED <<swState, skipWaiting, act, msgVars, fetchVars,
                 syncVars, notifVars>>

OptionalSettled == \A u \in OPTIONAL_CACHE : inst.opt[u] \in {"stored", "failed"}

\* Promise.all of line 30 fulfils; the then of lines 52-55 runs.
InstallThen ==
    /\ inst.wait1 = "pending"
    /\ inst.ess = "ok"
    /\ inst.optOpen # "opening"
    /\ OptionalSettled
    /\ skipWaiting' = TRUE
    /\ inst' = [inst EXCEPT !.wait1 = "fulfilled"]
    /\ UNCHANGED <<swState, caches, act, msgVars, fetchVars,
                 syncVars, notifVars>>

\* What the promise of line 29 settles as when Promise.all rejects: the
\* catch of lines 56-58 logs and returns, so the promise is fulfilled.
InstallCatchResult == "fulfilled"

\* Promise.all of line 30 rejects as soon as the essential chain rejects.
InstallCatch ==
    /\ inst.wait1 = "pending"
    /\ inst.ess = "fail"
    /\ inst' = [inst EXCEPT !.wait1 = InstallCatchResult]
    /\ UNCHANGED <<swState, skipWaiting, caches, act, msgVars, fetchVars,
                 syncVars, notifVars>>

\* caches.open(CACHE_NAME) of line 415 resolves.
Install2Open ==
    /\ inst.l2 = "opening"
    /\ caches' = Open(caches, CACHE_NAME)
    /\ inst' = [inst EXCEPT !.l2 = "opened"]
    /\ UNCHANGED <<swState, skipWaiting, act, msgVars, fetchVars,
                 syncVars, notifVars>>

\* cache.addAll(urlsToCache) of line 418 settles; a rejection is caught at
\* lines 420-422, so the promise of line 414 is fulfilled either way.
Install2AddAll ==
    /\ inst.l2 = "opened"
    /\ caches' = AddAll(caches, CACHE_NAME, urlsToCache, inst.down)
    /\ inst' = [inst EXCEPT
                  !.l2 = IF inst.down \cap urlsToCache = {} THEN "ok" ELSE "fail",
                  !.wait2 = "fulfilled"]
    /\ UNCHANGED <<swState, skipWaiting, act, msgVars, fetchVars,
                 syncVars, notifVars>>

\* The install event's waitUntil promises have all settled: the worker is
\* installed unless one of them rejected.
InstallComplete ==
    /\ swState = "installing"
    /\ inst.wait1 \in {"fulfilled", "rejected"}
    /\ inst.wait2 \in {"fulfilled", "rejected"}
    /\ swState' = IF "rejected" \in {inst.wait1, inst.wait2}
                  THEN "redundant" ELSE "installed"
    /\ UNCHANGED <<skipWaiting, caches, inst, act, msgVars, fetchVars,
                 syncVars, notifVars>>

-----------------------------------------------------------------------------
(* activate: listener 1 (lines 63-85) and listener 2 (lines 428-443)        *)

ActIdle ==
    [start   |-> <<>>,     \* CacheStorage when the activate event arrived
     k1      |-> "idle",   \* chain of lines 69-83
     del1    |-> {},       \* caches.delete calls of line 75 not yet settled
     claim1  |-> FALSE,    \* clients.claim() of line 82 called
     k2      |-> "idle",   \* chain of lines 431-440
     del2    |-> {},       \* caches.delete calls of line 436 not yet settled
     claim2  |-> FALSE]    \* clients.claim() of line 442 called

cacheWhitelist == {STATIC_CACHE, RUNTIME_CACHE}

\* The names listener 1 deletes (line 73), given the names caches.keys() gave.
ToDelete1(cacheNames) == {n \in cacheNames : n \notin cacheWhitelist}

\* The names listener 2 deletes (line 434).
ToDelete2(cacheNames) == {n \in cacheNames : n # CACHE_NAME}

\* Whether listener 2 has called clients.claim() once its synchronous part
\* has run: line 442 is outside the promise chain.
Claim2AtDispatch == TRUE

\* The activate event reaches both listeners: each calls caches.keys().
ActivateEvent ==
    /\ swState = "installed"
    /\ skipWaiting
    /\ swState' = "activating"
    /\ act' = [act EXCEPT !.start = caches, !.k1 = "keys", !.k2 = "keys",
                          !.claim2 = Claim2AtDispatch]
    /\ UNCHANGED <<skipWaiting, caches, inst, msgVars, fetchVars,
                 syncVars, notifVars>>

\* caches.keys() of line 69 resolves; the map of line 72 starts the deletes.
Activate1Keys ==
    /\ act.k1 = "keys"
    /\ act' = [act EXCEPT !.k1 = "deleting", !.del1 = ToDelete1(Names(caches))]
    /\ UNCHANGED <<swState, skipWaiting, caches, inst, msgVars, fetchVars,
                 syncVars, notifVars>>

\* Handles opened on a partition no longer show in CacheStorage once the
\* partition is deleted.
InstAfterDelete(name) ==
    IF name = STATIC_CACHE /\ inst.optOpen = "live"
    THEN [inst EXCEPT !.optOpen = "stale"] ELSE inst

\* One caches.delete of line 75 settles.
Activate1Delete(name) ==
    /\ name \in act.del1
    /\ caches' = DeleteCache(caches, name)
    /\ inst' = InstAfterDelete(name)
    /\ act' = [act EXCEPT !.del1 = act.del1 \ {name}]
    /\ UNCHANGED <<swState, skipWaiting, msgVars, fetchVars,
                 syncVars, notifVars>>

\* Promise.all of line 71 fulfils; the then of lines 80-83 calls
\* clients.claim().
Activate1Claim ==
    /\ act.k1 = "deleting"
    /\ act.del1 = {}
    /\ act' = [act EXCEPT !.k1 = "done", !.claim1 = TRUE]
    /\ UNCHANGED <<swState, skipWaiting, caches, inst, msgVars, fetchVars,
                 syncVars, notifVars>>

\* caches.keys() of line 431 resolves; the map of line 433 starts the deletes.
Activate2Keys ==
    /\ act.k2 = "keys"
    /\ act' = [act EXCEPT !.k2 = "deleting", !.del2 = ToDelete2(Names(caches))]
    /\ UNCHANGED <<swState, skipWaiting, caches, inst, msgVars, fetchVars,
                 syncVars, notifVars>>

\* One caches.delete of line 436 settles.
Activate2Delete(name) ==
    /\ name \in act.del2
    /\ caches' = DeleteCache(caches, name)
    /\ inst' = InstAfterDelete(name)
    /\ act' = [act EXCEPT !.del2 = act.del2 \ {name}]
    /\ UNCHANGED <<swState, skipWaiting, msgVars, fetchVars,
                 syncVars, notifVars>>

\* Promise.all of line 432 fulfils.
Activate2Done ==
    /\ act.k2 = "deleting"
    /\ act.del2 = {}
    /\ act' = [act EXCEPT !.k2 = "done"]
    /\ UNCHANGED <<swState, skipWaiting, caches, inst, msgVars, fetchVars,
                 syncVars, notifVars>>

\* Both waitUntil promises of the activate event have settled.
ActivateComplete ==
    /\ swState = "activating"
    /\ act.k1 = "done"
    /\ act.k2 = "done"
    /\ swState' = "activated"
    /\ UNCHANGED <<skipWaiting, caches, inst, act, msgVars, fetchVars,
                 syncVars, notifVars>>

AllNames == {CACHE_NAME, STATIC_CACHE, RUNTIME_CACHE, OLD_CACHE}

-----------------------------------------------------------------------------
(* message: listener 1 (lines 314-328) and listener 2 (lines 557-567)       *)

MessageTypes == {"SKIP_WAITING", "GET_VERSION", "CACHE_QUIZ_DATA", "CACHE_DATA"}

Payloads == 1..MaxBody

NoPort == [type |-> "none", got |-> <<>>]

\* (mutant) the reply names the runtime partition when there is one.
VersionReplyFromRuntime ==
    [version |-> IF Has(caches, RUNTIME_CACHE) THEN RUNTIME_CACHE ELSE CACHE_NAME]

\* The message listener 1 posts for GET_VERSION (line 322).
VersionReply == [version |-> CACHE_NAME]

\* The message listener 2 posts for GET_VERSION (line 565).
VersionReply2 == [version |-> CACHE_NAME]

\* What the two listeners post on event.ports[0] for a message of this type.
Replies(type) ==
    IF type = "GET_VERSION" THEN <<VersionReply, VersionReply2>> ELSE <<>>

\* (mutant) the payload is dropped: the Response is built without it.
QuizResponseEmpty(payload) == [status |-> 200, body |-> <<"json", 0>>]

\* The Response cacheQuizData stores (line 334): new Response(JSON.stringify(
\* quizData)) has status 200 and the serialised payload as its body.
QuizResponse(payload) == [status |-> 200, body |-> <<"json", payload>>]

\* event.data: {type} or, for the types that carry one, {type, payload}.
NoMessage == [type |-> "none", payload |-> 0]

EventData(type, payload) ==
    [type |-> type,
     payload |-> IF type \in {"CACHE_QUIZ_DATA", "CACHE_DATA"} THEN payload ELSE 0]

\* A message event reaches both listeners.  Both run to their end before
\* anything else; cacheQuizData (line 326) runs to its first await.
MessageEvent(type, payload) ==
    /\ swState \in {"installing", "installed", "activating", "activated"}
    /\ msgCount < MaxMessages
    /\ msgCount' = msgCount + 1
    /\ skipWaiting' = (skipWaiting \/ type = "SKIP_WAITING")
    /\ port' = [type |-> type, got |-> Replies(type)]
    /\ lastMsg' = EventData(type, payload)
    /\ quiz' = IF type = "CACHE_QUIZ_DATA"
               THEN quiz \cup {[pc |-> "open", payload |-> payload]}
               ELSE quiz
    /\ UNCHANGED <<swState, caches, inst, act, fetchVars, syncVars, notifVars>>

\* caches.open(RUNTIME_CACHE) of line 333 resolves.
QuizOpen(t) ==
    /\ t \in quiz
    /\ t.pc = "open"
    /\ caches' = Open(caches, RUNTIME_CACHE)
    /\ quiz' = (quiz \ {t}) \cup {[t EXCEPT !.pc = "put"]}
    /\ UNCHANGED <<lifeVars, msgCount, port, lastMsg, fetchVars, syncVars, notifVars>>

\* cache.put of line 334 resolves.
QuizPut(t) ==
    /\ t \in quiz
    /\ t.pc = "put"
    /\ caches' = Put(caches, RUNTIME_CACHE, Key("/quiz-data"), QuizResponse(t.payload))
    /\ quiz' = quiz \ {t}
    /\ UNCHANGED <<lifeVars, msgCount, port, lastMsg, fetchVars, syncVars, notifVars>>

\* caches.open of line 333 or cache.put of line 334 rejects (a storage
\* failure): the catch block of lines 336-338 logs it and cacheQuizData
\* returns.
QuizFail(t) ==
    /\ t \in quiz
    /\ quiz' = quiz \ {t}
    /\ UNCHANGED <<lifeVars, caches, msgCount, port, lastMsg, fetchVars,
                   syncVars, notifVars>>

QuizTasks == [pc : {"open", "put"}, payload : Payloads]

-----------------------------------------------------------------------------
(* fetch: listener 1 (lines 88-116) with its four handlers (119-218), and   *)
(* listener 2 (lines 446-498)                                               *)

trustedOrigins ==
    {"https://www.gstatic.com", "https://firebase.googleapis.com",
     "https://firestore.googleapis.com"}

isTrustedOrigin(origin) == origin \in trustedOrigins

\* The origins requests of the model come from: the worker's own, one of the
\* allow-list, one outside it.
Origins == {location_origin, "https://www.gstatic.com", "https://evil.example"}

Paths == {"/index.html", "/api/score"}

Methods == {"GET", "POST"}

\* request.destination; "" is what fetch() and XHR calls carry.
Destinations == {"document", "script", "style", "image", ""}

\* The requests of the model: the own-origin GETs of the document, image
\* and other categories, a script of a trusted origin, and the cross-origin
\* and non-GET requests that show each way through the listeners.
Requests ==
    {r \in [origin : Origins, path : Paths, method : Methods, dest : Destinations] :
        \/ /\ r.origin = location_origin
           /\ r.method = "GET"
           /\ r.dest \in {"document", "image", ""}
        \/ /\ r.origin = location_origin
           /\ r.method = "POST"
           /\ <<r.path, r.dest>> \in {<<"/api/score", "">>, <<"/index.html", "document">>}
        \/ /\ r.origin = "https://www.gstatic.com"
           /\ r.method = "GET"
           /\ <<r.path, r.dest>> \in {<<"/api/score", "script">>, <<"/api/score", "style">>}
        \/ /\ r.origin = "https://evil.example"
           /\ r.path = "/api/score"
           /\ <<r.method, r.dest>> \in {<<"GET", "">>, <<"POST", "">>}}

RequestKey(r) == <<r.origin, r.path>>

\* JavaScript values, tagged with their type.
JsStr(x)  == [t |-> "string", v |-> x]
JsBool(x) == [t |-> "boolean", v |-> x]

Truthy(x) == IF x.t = "boolean" THEN x.v ELSE x.v # ""

\* !x
JsNot(x) == JsBool(~Truthy(x))

\* a === b: false when the types differ.
StrictEquals(a, b) == a.t = b.t /\ a.v = b.v

\* The test of line 93, !url.origin === location.origin &&
\* !isTrustedOrigin(url.origin): listener 1 returns when it holds.
SkipCrossOrigin(r) ==
    /\ StrictEquals(JsNot(JsStr(r.origin)), JsStr(location_origin))
    /\ ~isTrustedOrigin(r.origin)

\* (mutant) listener 1 without the method test of lines 98-100.
InterceptsAnyMethod(r) == ~SkipCrossOrigin(r)

\* Whether listener 1 calls respondWith (lines 93-115).
Intercepts1(r) == ~SkipCrossOrigin(r) /\ r.method = "GET"

\* Whether listener 2 starts its chain (lines 448-457): the URL starts with
\* the worker's origin and the method is GET.
Intercepts2(r) == r.origin = location_origin /\ r.method = "GET"

\* The handler listener 1 gives the request to (lines 103-115).
HandlerOf(r) ==
    IF r.dest = "document" THEN "handleDocumentRequest"
    ELSE IF r.dest \in {"script", "style"} THEN "handleStaticAssetRequest"
    ELSE IF r.dest = "image" THEN "handleImageRequest"
    ELSE "handleOtherRequest"

\* The partition a handler stores into (lines 133, 159, 181, 201).
StoreOf(handler) ==
    IF handler \in {"handleDocumentRequest", "handleStaticAssetRequest"}
    THEN STATIC_CACHE ELSE RUNTIME_CACHE

\* What fetch(request) resolves to; NetFail is a rejection (no network).
NetResponses ==
    {OkResponse(b) : b \in 1..MaxBody} \cup {[status |-> 500, body |-> <<"net", 0>>]}

NetOutcomes == NetResponses \cup {NetFail}

\* (mutant) the catch block rethrows when there is no fallback.
OfflineRethrown == [status |-> 0, body |-> <<"error", 0>>]

\* new Response('Offline', {status: 503}) (line 144).
Offline == [status |-> 503, body |-> <<"Offline", 0>>]

\* The partitions that hold the key, in creation order, each with the
\* response it holds: <<name, response>>.
Holders(cs, key) ==
    LET Pair(c) == <<c.name, IF key \in DOMAIN c.entries THEN c.entries[key] ELSE None>>
        all == [i \in 1..Len(cs) |-> Pair(cs[i])]
    IN  SelectSeq(all, LAMBDA pr : pr[2] # None)

\* (mutant) the handler looks in the static partition only.
LookupStaticOnly(cs, key) == MatchIn(cs, STATIC_CACHE, key)

\* (mutant) the lookup is skipped: the handler always goes to the network.
LookupNever(cs, key) == [status |-> 0, body |-> <<"none", 0>>]

\* The lookup the cache-first handlers start with (lines 122, 151, 173).
CacheFirstLookup(cs, key) == MatchAll(cs, key)

\* What handleOtherRequest returns when fetch resolved with resp (lines
\* 197-205): the network's response, whatever its status.
OtherResult(cs, key, resp) == resp

\* (mutant) the status test is dropped: every response of a GET is stored.
CacheableAnyStatus(r, resp) == r.method = "GET"

\* Whether a handler stores the response it fetched (lines 132, 158, 180,
\* 200).
Cacheable(r, resp) == resp.status = 200 /\ r.method = "GET"

\* Whether a handler of listener 1 has been started for the key of r and
\* has not returned yet.
InFlight(rs, r) ==
    /\ Intercepts1(r)
    /\ \E q \in 1..Len(rs) :
          /\ RequestKey(rs[q].r) = RequestKey(r)
          /\ rs[q].p1 \notin {"pass", "done"}

\* A fetch event reaches both listeners.  Listener 1 returns without
\* respondWith or gives the request to a handler, which runs to its first
\* await; listener 2 returns or starts its chain with caches.match.
FetchEvent(r) ==
    /\ swState = "activated"
    /\ nreq < MaxRequests
    /\ nreq' = nreq + 1
    /\ reqs' = Append(reqs,
          [r    |-> r,
           p1   |-> IF ~Intercepts1(r) THEN "pass"
                    ELSE IF HandlerOf(r) = "handleOtherRequest" THEN "net"
                    ELSE "match",
           seen |-> <<>>,        \* Holders of the key at the lookup
           overlap |-> InFlight(reqs, r),  \* a handler of listener 1 was
                                 \* running for the same key at dispatch
           ns   |-> 0,           \* status fetch gave handler 1; 0: no fetch
                                 \* made, -1: fetch rejected
           net  |-> None,      \* the response handler 1 is about to store
           had  |-> None,      \* handleOtherRequest: the runtime entry of
                               \* the key when fetch settled
           resp |-> Pending,   \* what respondWith was given
           p2   |-> IF Intercepts2(r) THEN "match" ELSE "pass",
           net2 |-> None])     \* the response listener 2 is about to store
    /\ UNCHANGED <<lifeVars, caches, msgVars, puts, unhandled,
                 syncVars, notifVars>>

IsReq(q) == q \in 1..Len(reqs)

\* caches.match(request) of a cache-first handler resolves (lines 122-126,
\* 151-154, 173-176): a hit is returned, a miss goes to the network.
HandlerMatch(q) ==
    /\ IsReq(q)
    /\ reqs[q].p1 = "match"
    /\ LET key == RequestKey(reqs[q].r)
           hit == CacheFirstLookup(caches, key)
       IN  reqs' = [reqs EXCEPT
                ![q].seen = Holders(caches, key),
                ![q].p1 = IF hit # None THEN "done" ELSE "net",
                ![q].resp = IF hit # None THEN hit ELSE Pending]
    /\ UNCHANGED <<lifeVars, caches, msgVars, puts, nreq, unhandled,
                 syncVars, notifVars>>

\* fetch(request) settles in a handler (lines 129, 156, 178, 197).
\* Resolved: a cacheable response goes on to caches.open, any other is
\* returned.  Rejected: handleDocumentRequest and handleOtherRequest go to
\* their fallback, the other two rethrow.
HandlerNet(q, out) ==
    /\ IsReq(q)
    /\ reqs[q].p1 = "net"
    /\ LET r   == reqs[q].r
           h   == HandlerOf(r)
           key == RequestKey(r)
       IN  reqs' = [reqs EXCEPT
                ![q].ns = IF out = NetFail THEN -1 ELSE out.status,
                ![q].net = IF out # NetFail /\ Cacheable(r, out) THEN out ELSE None,
                ![q].had = IF h = "handleOtherRequest"
                           THEN MatchIn(caches, RUNTIME_CACHE, key) ELSE None,
                ![q].p1 =
                    IF out = NetFail
                    THEN IF h = "handleDocumentRequest" THEN "catchOpen"
                         ELSE IF h = "handleOtherRequest" THEN "catchMatch"
                         ELSE "done"
                    ELSE IF Cacheable(r, out) THEN "open" ELSE "done",
                ![q].resp =
                    IF out = NetFail
                    THEN IF h \in {"handleDocumentRequest", "handleOtherRequest"}
                         THEN Pending ELSE Failure
                    ELSE IF Cacheable(r, out) THEN Pending
                    ELSE IF h = "handleOtherRequest" THEN OtherResult(caches, key, out)
                    ELSE out]
    /\ UNCHANGED <<lifeVars, caches, msgVars, puts, nreq, unhandled,
                 syncVars, notifVars>>

\* caches.open of lines 133, 159, 181, 201 resolves: cache.put is called and
\* not awaited, the network response is returned.
HandlerOpen(q) ==
    /\ IsReq(q)
    /\ reqs[q].p1 = "open"
    /\ LET r    == reqs[q].r
           name == StoreOf(HandlerOf(r))
       IN  /\ caches' = Open(caches, name)
           /\ puts' = puts \cup {[name |-> name, key |-> RequestKey(r),
                                  resp |-> reqs[q].net]}
           /\ reqs' = [reqs EXCEPT ![q].p1 = "done", ![q].resp = reqs[q].net,
                                   ![q].net = None]
    /\ UNCHANGED <<lifeVars, msgVars, nreq, unhandled, syncVars, notifVars>>

\* caches.open of line 142 resolves.
DocumentCatchOpen(q) ==
    /\ IsReq(q)
    /\ reqs[q].p1 = "catchOpen"
    /\ caches' = Open(caches, STATIC_CACHE)
    /\ reqs' = [reqs EXCEPT ![q].p1 = "catchMatch"]
    /\ UNCHANGED <<lifeVars, msgVars, puts, nreq, unhandled,
                 syncVars, notifVars>>

\* The fallback lookup resolves: cache.match('/index.html') in the static
\* partition, else a 503 (lines 143-144); caches.match(request) in
\* handleOtherRequest, else the error is rethrown (lines 210-216).
HandlerCatchMatch(q) ==
    /\ IsReq(q)
    /\ reqs[q].p1 = "catchMatch"
    /\ LET r == reqs[q].r
           fallback == MatchIn(caches, STATIC_CACHE, Key("/index.html"))
           cached == MatchAll(caches, RequestKey(r))
       IN  reqs' = [reqs EXCEPT
                ![q].p1 = "done",
                ![q].resp =
                    IF HandlerOf(r) = "handleDocumentRequest"
                    THEN IF fallback # None THEN fallback ELSE Offline
                    ELSE IF cached # None THEN cached ELSE Failure]
    /\ UNCHANGED <<lifeVars, caches, msgVars, puts, nreq, unhandled,
                 syncVars, notifVars>>

\* A cache.put that was called and not awaited completes.
PutComplete(p) ==
    /\ p \in puts
    /\ caches' = Put(caches, p.name, p.key, p.resp)
    /\ puts' = puts \ {p}
    /\ UNCHANGED <<lifeVars, msgVars, reqs, nreq, unhandled,
                 syncVars, notifVars>>

\* caches.match of line 458 resolves in listener 2's chain: a hit ends it,
\* a miss goes to the network (line 468).
Chain2Match(q) ==
    /\ IsReq(q)
    /\ reqs[q].p2 = "match"
    /\ reqs' = [reqs EXCEPT ![q].p2 =
                   IF MatchAll(caches, RequestKey(reqs[q].r)) # None
                   THEN "done" ELSE "net"]
    /\ UNCHANGED <<lifeVars, caches, msgVars, puts, nreq, unhandled,
                 syncVars, notifVars>>

\* fetch of line 468 settles in listener 2's chain: a status-200 response
\* goes on to caches.open(CACHE_NAME) (lines 471-482); any other response,
\* and a rejection (lines 486-495, which only read), end the chain.
Chain2Net(q, out) ==
    /\ IsReq(q)
    /\ reqs[q].p2 = "net"
    /\ reqs' = [reqs EXCEPT
           ![q].net2 = IF out # NetFail /\ out.status = 200 THEN out ELSE None,
           ![q].p2 = IF out # NetFail /\ out.status = 200 THEN "open" ELSE "done"]
    /\ UNCHANGED <<lifeVars, caches, msgVars, puts, nreq, unhandled,
                 syncVars, notifVars>>

\* caches.open(CACHE_NAME) of line 479 resolves and cache.put is called.
Chain2Open(q) ==
    /\ IsReq(q)
    /\ reqs[q].p2 = "open"
    /\ caches' = Open(caches, CACHE_NAME)
    /\ puts' = puts \cup {[name |-> CACHE_NAME, key |-> RequestKey(reqs[q].r),
                           resp |-> reqs[q].net2]}
    /\ reqs' = [reqs EXCEPT ![q].p2 = "done", ![q].net2 = None]
    /\ UNCHANGED <<lifeVars, msgVars, nreq, unhandled, syncVars, notifVars>>

PutOps ==
    [name : {STATIC_CACHE, RUNTIME_CACHE, CACHE_NAME},
     key  : Origins \X Paths,
     resp : {OkResponse(b) : b \in 1..MaxBody}]

FetchNext ==
    \/ \E r \in Requests : FetchEvent(r)
    \/ \E q \in 1..MaxRequests : HandlerMatch(q)
    \/ \E q \in 1..MaxRequests, out \in NetOutcomes : HandlerNet(q, out)
    \/ \E q \in 1..MaxRequests : HandlerOpen(q)
    \/ \E q \in 1..MaxRequests : DocumentCatchOpen(q)
    \/ \E q \in 1..MaxRequests : HandlerCatchMatch(q)
    \/ \E p \in PutOps : PutComplete(p)
    \/ \E q \in 1..MaxRequests : Chain2Match(q)
    \/ \E q \in 1..MaxRequests, out \in NetOutcomes : Chain2Net(q, out)
    \/ \E q \in 1..MaxRequests : Chain2Open(q)

-----------------------------------------------------------------------------
(* Storage failures in handleDocumentRequest (lines 119-146): a partition   *)
(* operation rejects, as it does when the quota is exceeded or the store    *)
(* is unavailable.                                                          *)

IsDocument(q) ==
    IsReq(q) /\ HandlerOf(reqs[q].r) = "handleDocumentRequest"

\* caches.match(request) of line 122 rejects: the catch block of line 138
\* takes over and goes on to caches.open (line 142).
DocMatchFails(q) ==
    /\ IsDocument(q)
    /\ reqs[q].p1 = "match"
    /\ reqs' = [reqs EXCEPT ![q].p1 = "catchOpen"]
    /\ UNCHANGED <<lifeVars, caches, msgVars, puts, nreq, unhandled,
                   syncVars, notifVars>>

\* caches.open(STATIC_CACHE) of line 133 rejects: the network response is
\* dropped and the catch block takes over.
DocOpenFails(q) ==
    /\ IsDocument(q)
    /\ reqs[q].p1 = "open"
    /\ reqs' = [reqs EXCEPT ![q].p1 = "catchOpen", ![q].net = None]
    /\ UNCHANGED <<lifeVars, caches, msgVars, puts, nreq, unhandled,
                   syncVars, notifVars>>

\* caches.open of line 142 or cache.match of line 143 rejects inside the
\* catch block: nothing catches it and the handler's promise rejects.
DocCatchFails(q) ==
    /\ IsDocument(q)
    /\ reqs[q].p1 \in {"catchOpen", "catchMatch"}
    /\ reqs' = [reqs EXCEPT ![q].p1 = "done", ![q].resp = Failure]
    /\ UNCHANGED <<lifeVars, caches, msgVars, puts, nreq, unhandled,
                   syncVars, notifVars>>

\* A cache.put that was called and not awaited rejects (lines 134, 481):
\* its promise has no handler.
PutFails(p) ==
    /\ p \in puts
    /\ puts' = puts \ {p}
    /\ unhandled' = unhandled \cup {p}
    /\ UNCHANGED <<lifeVars, caches, msgVars, reqs, nreq, syncVars, notifVars>>

\* The document requests of the model.
DocumentRequests ==
    {r \in Requests : r.dest = "document" /\ r.origin = location_origin}

StorageNext ==
    \/ \E r \in DocumentRequests : FetchEvent(r)
    \/ \E q \in 1..MaxRequests : HandlerMatch(q)
    \/ \E q \in 1..MaxRequests, out \in NetOutcomes : HandlerNet(q, out)
    \/ \E q \in 1..MaxRequests : HandlerOpen(q)
    \/ \E q \in 1..MaxRequests : DocumentCatchOpen(q)
    \/ \E q \in 1..MaxRequests : HandlerCatchMatch(q)
    \/ \E p \in PutOps : PutComplete(p)
    \/ \E q \in 1..MaxRequests : Chain2Match(q)
    \/ \E q \in 1..MaxRequests, out \in NetOutcomes : Chain2Net(q, out)
    \/ \E q \in 1..MaxRequests : Chain2Open(q)
    \/ \E q \in 1..MaxRequests : DocMatchFails(q)
    \/ \E q \in 1..MaxRequests : DocOpenFails(q)
    \/ \E q \in 1..MaxRequests : DocCatchFails(q)
    \/ \E p \in PutOps : PutFails(p)

-----------------------------------------------------------------------------
(* sync: listener 1 (lines 231-241) and listener 2 (lines 501-509) with     *)
(* syncQuizSubmission (366-382) and the syncTestData in effect, the         *)
(* placeholder of lines 570-582.                                            *)
(*                                                                          *)
(* localStorage[k] is the array JSON.parse reads under key k; a key never   *)
(* written, or removed, reads as the empty array (line 386).                *)

StorageKeys == {"test-results", "quiz-submissions"}

SyncTags == {"save-test-data", "submit-quiz", "backup-data"}

\* The storage key the drain started for a tag reads (line 370).
KeyOfTag(tag) == "quiz-submissions"

\* The outcomes of the request sendToServer stands for.  The body of lines
\* 393-398 is a stub that resolves; the API call it is the place of can
\* reject, which is what the catch blocks of lines 359-362 and 378-381
\* handle.
SendOutcomes == {"ok", "fail"}

Range(q) == {q[i] : i \in 1..Len(q)}

\* The page queues an item: it appends it to the array under the key.
Enqueue(key) ==
    /\ Len(enqueued) < MaxItems
    /\ LET item == <<key, Len(enqueued) + 1>>
       IN  /\ enqueued' = Append(enqueued, item)
           /\ localStorage' = [localStorage EXCEPT ![key] = Append(@, item)]
    /\ UNCHANGED <<lifeVars, caches, msgVars, fetchVars, notifVars,
                 server, drains, nsync>>

DrainOfKey(key) == {d \in 1..Len(drains) : drains[d].key = key}

Running(key) ==
    \E d \in DrainOfKey(key) : drains[d].pc \in {"got", "send"}

\* A sync event reaches both listeners.  The script declares syncTestData
\* twice (lines 342 and 570); a function declaration is hoisted and the
\* later one replaces the earlier, so the name is bound to the placeholder
\* of lines 570-582 in both listeners (lines 236, 506, 599) and the tag
\* "save-test-data" changes nothing.  The tag "submit-quiz" starts
\* syncQuizSubmission, which runs to its first await: getOfflineData has
\* read the array by then (line 386 runs synchronously).  The runtime fires
\* one sync event per tag at a time.
SyncEvent(tag) ==
    /\ nsync < MaxSyncs
    /\ nsync' = nsync + 1
    /\ IF tag = "submit-quiz"
       THEN /\ ~Running(KeyOfTag(tag))
            /\ drains' = Append(drains,
                   [fn   |-> "syncQuizSubmission",
                    key  |-> KeyOfTag(tag),
                    pc   |-> "got",
                    data |-> localStorage[KeyOfTag(tag)],
                    i    |-> 0])
       ELSE UNCHANGED drains
    /\ UNCHANGED <<lifeVars, caches, msgVars, fetchVars, notifVars,
                 localStorage, server, enqueued>>

\* clearOfflineData(key), line 390.
ClearOfflineData(ls, key) == [ls EXCEPT ![key] = <<>>]

\* What the drain does to the queue once the item at index i of its array
\* has been delivered: nothing before the last one, clearOfflineData after
\* the last one (lines 372-376).
AfterDelivery(ls, d, i) ==
    IF i = Len(d.data) THEN ClearOfflineData(ls, d.key) ELSE ls

\* The await of getOfflineData resumes (lines 370-372).  With an empty
\* array the loop has nothing to deliver and clearOfflineData runs at
\* once (line 376).
DrainStart(d) ==
    /\ d \in 1..Len(drains)
    /\ drains[d].pc = "got"
    /\ IF Len(drains[d].data) > 0
       THEN /\ drains' = [drains EXCEPT ![d].pc = "send", ![d].i = 1]
            /\ UNCHANGED localStorage
       ELSE /\ drains' = [drains EXCEPT ![d].pc = "done"]
            /\ localStorage' = ClearOfflineData(localStorage, drains[d].key)
    /\ UNCHANGED <<lifeVars, caches, msgVars, fetchVars, notifVars,
                 server, nsync, enqueued>>

\* await sendToServer(data) settles for the item at index i (line 373).
\* Delivered: the loop goes on, and after the last item the queue is
\* cleared.  Rejected: the catch logs and rethrows, the drain ends.
DrainSend(d, outcome) ==
    /\ d \in 1..Len(drains)
    /\ drains[d].pc = "send"
    /\ LET i == drains[d].i
       IN  IF outcome = "ok"
           THEN /\ server' = Append(server, drains[d].data[i])
                /\ localStorage' = AfterDelivery(localStorage, drains[d], i)
                /\ drains' = IF i = Len(drains[d].data)
                             THEN [drains EXCEPT ![d].pc = "done"]
                             ELSE [drains EXCEPT ![d].i = i + 1]
           ELSE /\ drains' = [drains EXCEPT ![d].pc = "failed"]
                /\ UNCHANGED <<server, localStorage>>
    /\ UNCHANGED <<lifeVars, caches, msgVars, fetchVars, notifVars,
                 nsync, enqueued>>

SyncNext ==
    \/ \E key \in StorageKeys : Enqueue(key)
    \/ \E tag \in SyncTags : SyncEvent(tag)
    \/ \E d \in 1..MaxSyncs : DrainStart(d)
    \/ \E d \in 1..MaxSyncs, outcome \in SendOutcomes : DrainSend(d, outcome)

-----------------------------------------------------------------------------
(* push: listener 1 (lines 244-282) and listener 2 (lines 512-541);         *)
(* notificationclick: listener 1 (lines 285-311) and listener 2 (lines      *)
(* 544-554).  The values of the notification fields are kept as strings.    *)

\* The template of listener 1 (lines 247-267).
notificationData ==
    [title   |-> "Mock Test Pro",
     body    |-> "You have a new notification!",
     icon    |-> "/icon-192x192.png",
     badge   |-> "/icon-72x72.png",
     vibrate |-> "100,50,100",
     data    |-> "dateOfArrival,primaryKey",
     actions |-> "open-app,dismiss"]

\* The fields a payload of the model may carry: two of the template's and
\* one the template does not have.
OverrideFields == {<<"title", "Results are in">>, <<"body", "Score 9/10">>,
                   <<"tag", "results">>}

\* event.data of a push event: absent, a text that is not JSON, or the
\* JSON text of an object, given by its <<field, value>> pairs.
NoData == [kind |-> "none", text |-> "", obj |-> {}]

PushData ==
    {NoData, [kind |-> "text", text |-> "hello", obj |-> {}]}
        \cup {[kind |-> "json", text |-> "{...}", obj |-> o] : o \in SUBSET OverrideFields}

\* { ...template, ...pushData } (line 273): the fields of both, the
\* payload's value where it has the field.
Merge(template, obj) ==
    [f \in DOMAIN template \cup {pr[1] : pr \in obj} |->
        IF \E pr \in obj : pr[1] = f
        THEN (CHOOSE pr \in obj : pr[1] = f)[2]
        ELSE template[f]]

\* notificationData after lines 270-277: event.data.json() throws for a
\* text that is not JSON, the catch logs it and the template stays.
Merged(d) ==
    IF d.kind = "json" THEN Merge(notificationData, d.obj) ELSE notificationData

\* The options of listener 2 (lines 515-536).
options(d) ==
    [body    |-> IF d.kind = "none" THEN "New notification from Mock Test Pro"
                 ELSE d.text,
     icon    |-> "/icon-192x192.png",
     badge   |-> "/icon-72x72.png",
     vibrate |-> "100,50,100",
     data    |-> "dateOfArrival,primaryKey",
     actions |-> "open-app+icon,dismiss+icon"]

\* showNotification(title, options) for the push event numbered n.
Notification(n, title, opts) == [push |-> n, title |-> title, options |-> opts]

\* A push event reaches both listeners; each calls showNotification (lines
\* 280 and 539).
PushEvent(d) ==
    /\ Len(pushes) < MaxPushes
    /\ pushes' = Append(pushes, d)
    /\ LET n == Len(pushes) + 1
       IN  shown' = shown \o
               <<Notification(n, Merged(d).title, Merged(d)),
                 Notification(n, "Mock Test Pro", options(d))>>
    /\ UNCHANGED <<lifeVars, caches, msgVars, fetchVars, syncVars, windows, clicks>>

\* event.action: a button of the notification, or "" for its body.
ClickActions == {"dismiss", "open-app", ""}

\* A window client: its origin and the path of its URL.
OwnWindow(path) == [origin |-> location_origin, path |-> path]

ForeignWindow == [origin |-> "https://evil.example", path |-> "/"]

\* clients.matchAll({type: 'window', includeUncontrolled: true}) (line
\* 296): the window clients of the worker's origin.
MatchAllClients(ws) == SelectSeq(ws, LAMBDA w : w.origin = location_origin)

\* client.url.includes(location.origin) && 'focus' in client (line 300).
Focusable(w) == w.origin = location_origin

\* A notificationclick event reaches both listeners.  Each closes the
\* notification (lines 288, 547).  Listener 1 returns for 'dismiss' and
\* calls clients.matchAll otherwise; listener 2 calls clients.openWindow('/')
\* for 'open-app' (lines 549-552).
NotificationClick(action) ==
    /\ shown # <<>>
    /\ Len(clicks) < MaxClicks
    /\ clicks' = Append(clicks,
          [action  |-> action,
           closed  |-> 2,
           had     |-> MatchAllClients(windows) # <<>>,
           pc1     |-> IF action = "dismiss" THEN "done" ELSE "matchAll",
           focus   |-> <<>>,
           open    |-> IF action = "open-app" THEN <<"/">> ELSE <<>>,
           opening |-> IF action = "open-app" THEN 1 ELSE 0])
    /\ UNCHANGED <<lifeVars, caches, msgVars, fetchVars, syncVars, windows,
                   pushes, shown>>

\* clients.matchAll of line 296 resolves (lines 297-309): the first client
\* that passes the test of line 300 is focused; with none, a window is
\* opened at '/'.
ClickMatchAll(c) ==
    /\ c \in 1..Len(clicks)
    /\ clicks[c].pc1 = "matchAll"
    /\ LET found == SelectSeq(MatchAllClients(windows), Focusable)
       IN  clicks' = [clicks EXCEPT
               ![c].pc1 = "done",
               ![c].focus = IF found # <<>> THEN <<found[1]>> ELSE <<>>,
               ![c].open = IF found # <<>> THEN @ ELSE Append(@, "/"),
               ![c].opening = IF found # <<>> THEN @ ELSE @ + 1]
    /\ UNCHANGED <<lifeVars, caches, msgVars, fetchVars, syncVars, windows,
                   pushes, shown>>

\* A clients.openWindow('/') call resolves: the new window is a client.
OpenWindowResolve(c) ==
    /\ c \in 1..Len(clicks)
    /\ clicks[c].opening > 0
    /\ clicks' = [clicks EXCEPT ![c].opening = @ - 1]
    /\ windows' = Append(windows, OwnWindow("/"))
    /\ UNCHANGED <<lifeVars, caches, msgVars, fetchVars, syncVars, pushes, shown>>

NotifNext ==
    \/ \E d \in PushData : PushEvent(d)
    \/ \E action \in ClickActions : NotificationClick(action)
    \/ \E c \in 1..MaxClicks : ClickMatchAll(c)
    \/ \E c \in 1..MaxClicks : OpenWindowResolve(c)

-----------------------------------------------------------------------------
(* Spec: a worker is installed over what earlier versions left behind.      *)

Leftover(names) ==
    [i \in 1..Len(names) |->
        [name |-> names[i],
         entries |-> [k \in {Key("/index.html")} |-> OkResponse(1)]]]

IdleRest ==
    /\ msgCount = 0
    /\ port = NoPort
    /\ lastMsg = NoMessage
    /\ quiz = {}
    /\ reqs = <<>>
    /\ puts = {}
    /\ nreq = 0
    /\ localStorage = [k \in StorageKeys |-> <<>>]
    /\ server = <<>>
    /\ drains = <<>>
    /\ nsync = 0
    /\ enqueued = <<>>
    /\ unhandled = {}
    /\ pushes = <<>>
    /\ shown = <<>>
    /\ clicks = <<>>

Init ==
    /\ swState = "parsed"
    /\ skipWaiting = FALSE
    /\ caches \in {Leftover(<<>>), Leftover(<<OLD_CACHE>>),
                   Leftover(<<OLD_CACHE, RUNTIME_CACHE>>),
                   Leftover(<<RUNTIME_CACHE, STATIC_CACHE>>)}
    /\ inst = InstIdle
    /\ act = ActIdle
    /\ windows = <<>>
    /\ IdleRest

Next ==
    \/ InstallEvent
    \/ EssentialOpen
    \/ EssentialAddAll
    \/ OptionalOpen
    \/ \E u \in OPTIONAL_CACHE : OptionalAddSettle(u)
    \/ InstallThen
    \/ InstallCatch
    \/ Install2Open
    \/ Install2AddAll
    \/ InstallComplete
    \/ ActivateEvent
    \/ Activate1Keys
    \/ \E n \in AllNames : Activate1Delete(n)
    \/ Activate1Claim
    \/ Activate2Keys
    \/ \E n \in AllNames : Activate2Delete(n)
    \/ Activate2Done
    \/ ActivateComplete

Spec == Init /\ [][Next]_vars

-----------------------------------------------------------------------------
(* The activated worker.  The two sweeps of activation together delete      *)
(* every partition they list, so the activated worker starts with an empty  *)
(* CacheStorage: ActiveInit is the state Spec reaches after an install in   *)
(* which every resource was reachable.                                      *)

InstalledCaches ==
    <<[name |-> STATIC_CACHE,
       entries |-> [k \in {Key(u) : u \in ESSENTIAL_CACHE \cup OPTIONAL_CACHE} |->
                       OkResponse(1)]],
      [name |-> CACHE_NAME,
       entries |-> [k \in {Key(u) : u \in urlsToCache} |-> OkResponse(1)]]>>

ActiveWorker ==
    /\ swState = "activated"
    /\ skipWaiting = TRUE
    /\ caches = <<>>
    /\ inst = [down |-> {}, ess |-> "ok", optOpen |-> "stale",
               opt |-> [u \in OPTIONAL_CACHE |-> "stored"],
               wait1 |-> "fulfilled", l2 |-> "ok", wait2 |-> "fulfilled"]
    /\ act = [ActIdle EXCEPT !.start = InstalledCaches, !.k1 = "done", !.k2 = "done",
                             !.claim1 = TRUE, !.claim2 = TRUE]
    /\ IdleRest

\* The activated worker with no window client open.
ActiveInit == ActiveWorker /\ windows = <<>>

MsgNext ==
    \/ \E type \in MessageTypes, payload \in Payloads : MessageEvent(type, payload)
    \/ \E t \in QuizTasks : QuizOpen(t)
    \/ \E t \in QuizTasks : QuizPut(t)
    \/ \E t \in QuizTasks : QuizFail(t)

MsgSpec == ActiveInit /\ [][MsgNext]_vars

SyncSpec == ActiveInit /\ [][SyncNext]_vars

FetchSpec == ActiveInit /\ [][FetchNext]_vars

\* The window clients open when the first push arrives.
WindowSets == {<<>>, <<OwnWindow("/index.html")>>, <<ForeignWindow>>,
               <<ForeignWindow, OwnWindow("/index.html")>>}

\* The activated worker receiving push and notificationclick events.
NotifInit == ActiveWorker /\ windows \in WindowSets

NotifSpec == NotifInit /\ [][NotifNext]_vars

\* The activated worker handling document requests while partition
\* operations may fail.
StorageSpec == ActiveInit /\ [][StorageNext]_vars

-----------------------------------------------------------------------------
(* Claims about install, activate and the control channel                   *)

StaticKeys == DOMAIN Entries(caches, STATIC_CACHE)

AfterInstall == swState \in {"installed", "activating", "activated"}

\* C1: if any essential resource cannot be fetched or stored during
\* install, the promise given to the runtime rejects and the worker never
\* becomes installed or active; and the worker is never installed while the
\* static partition lacks an essential entry.
C1_EssentialFailureFailsInstall ==
    /\ (inst.down \cap ESSENTIAL_CACHE # {}) =>
          (~AfterInstall /\ inst.wait1 # "fulfilled")
    /\ (swState = "installed") =>
          \A u \in ESSENTIAL_CACHE : Key(u) \in StaticKeys

\* C9: when every essential resource is reachable, whatever optional
\* resources fail, no waitUntil promise rejects, the install does not end
\* redundant, and the installed worker's static partition holds every
\* essential entry and no entry of an optional resource that failed.
C9_OptionalFailureHarmless ==
    (inst.down \cap ESSENTIAL_CACHE = {}) =>
        /\ swState # "redundant"
        /\ inst.wait1 # "rejected"
        /\ inst.wait2 # "rejected"
        /\ (inst.ess \in {"ok", "fail"}) => inst.ess = "ok"
        /\ (swState = "installed") =>
              /\ inst.wait1 = "fulfilled"
              /\ \A u \in ESSENTIAL_CACHE : Key(u) \in StaticKeys
              /\ \A u \in OPTIONAL_CACHE \cap inst.down : Key(u) \notin StaticKeys

\* C9 witness: an install whose essential resources were all reachable and
\* where an optional resource failed has completed.
C9_Witness ==
    /\ swState = "installed"
    /\ inst.down \cap ESSENTIAL_CACHE = {}
    /\ inst.down \cap OPTIONAL_CACHE # {}
    /\ \E u \in OPTIONAL_CACHE : inst.opt[u] = "failed"

\* C6: when activation has completed, every partition that existed at its
\* start and is not the static or the runtime partition is gone, and the
\* static and runtime partitions that existed are still there with their
\* entries.
C6_ActivationSweep ==
    (swState = "activated") =>
        /\ \A n \in Names(act.start) \ cacheWhitelist : ~Has(caches, n)
        /\ \A n \in Names(act.start) \cap cacheWhitelist :
              /\ Has(caches, n)
              /\ \A k \in DOMAIN Entries(act.start, n) :
                    MatchIn(caches, n, k) = Entries(act.start, n)[k]

Sweep1Unfinished ==
    /\ act.k1 \in {"keys", "deleting"}
    /\ \E n \in Names(caches) : n \notin cacheWhitelist

Sweep2Unfinished ==
    /\ act.k2 \in {"keys", "deleting"}
    /\ \E n \in Names(caches) : n # CACHE_NAME

\* C7: in each activate listener, clients.claim() is called only after all
\* the deletions that listener started have completed: clients are never
\* claimed by a listener while a partition outside its whitelist still
\* exists and its sweep is unfinished.
C7_ClaimAfterSweep ==
    /\ act.claim1 => ~Sweep1Unfinished
    /\ act.claim2 => ~Sweep2Unfinished

Received(type) == msgCount' = msgCount + 1 /\ lastMsg'.type = type

-----------------------------------------------------------------------------
(* Claims about the background-sync drains                                  *)

Queue(key) == Range(localStorage[key])

LastDrain(d) == \A e \in DrainOfKey(drains[d].key) : e <= d

C5_RemovedOnlyAfterDelivery ==
    \A i \in 1..Len(enqueued) :
        enqueued[i] \notin Queue(enqueued[i][1]) => enqueued[i] \in Range(server)

-----------------------------------------------------------------------------
(* Claims about intercepted requests                                        *)

Finished(q) == reqs[q].p1 = "done"

Untrusted(r) == r.origin # location_origin /\ ~isTrustedOrigin(r.origin)

AllKeys(cs) == UNION {DOMAIN cs[i].entries : i \in 1..Len(cs)}

\* C3: an "other"-category GET request whose key has a status-200 response
\* in the runtime partition, and to which the network answers with a status
\* other than 200, is answered with the cached response.
C3_CachedServedOnNon200 ==
    \A q \in 1..Len(reqs) :
        ( /\ Finished(q)
          /\ HandlerOf(reqs[q].r) = "handleOtherRequest"
          /\ reqs[q].r.method = "GET"
          /\ reqs[q].ns \notin {0, -1, 200}
          /\ reqs[q].had # None
          /\ reqs[q].had.status = 200 )
        => reqs[q].resp = reqs[q].had

\* C4: a request of an origin that is neither the worker's own nor in the
\* allow-list is never intercepted: no listener calls respondWith or starts
\* a handler for it, and no partition is written under its key.
C4_UntrustedNotIntercepted ==
    /\ \A q \in 1..Len(reqs) :
          Untrusted(reqs[q].r) => (reqs[q].p1 = "pass" /\ reqs[q].p2 = "pass")
    /\ \A p \in puts : p.key[1] = location_origin \/ isTrustedOrigin(p.key[1])
    /\ \A k \in AllKeys(caches) : k[1] = location_origin \/ isTrustedOrigin(k[1])

Documents == {q \in 1..Len(reqs) : HandlerOf(reqs[q].r) = "handleDocumentRequest"
                                   /\ reqs[q].p1 # "pass"}

\* The fallback shell entry: "/index.html" in the static partition.
FallbackEntry(cs) == MatchIn(cs, STATIC_CACHE, Key("/index.html"))

\* C11: a document request that missed the cache and whose fetch was
\* rejected (network unreachable) ends, when its fallback lookup resolves,
\* with the fallback shell entry if the static partition holds it and with
\* a synthesized status-503 response if not; the handler never ends with a
\* failure.
C11_OfflineDocument ==
    /\ [](\A q \in Documents :
            (Finished(q) /\ reqs[q].ns = -1) =>
                (reqs[q].resp # Failure /\ reqs[q].resp.status \in {200, 503}))
    /\ [][\A q \in Documents :
            (reqs[q].p1 = "catchMatch" /\ reqs'[q].p1 = "done") =>
                IF FallbackEntry(caches) = None
                THEN reqs'[q].resp.status = 503
                ELSE reqs'[q].resp = FallbackEntry(caches)]_vars

C11_Witness ==
    \E q \in Documents :
        /\ Finished(q)
        /\ reqs[q].seen = <<>>
        /\ reqs[q].ns = -1
        /\ reqs[q].resp.status = 503
        /\ FallbackEntry(caches) = None

\* The record of a request no listener has intercepted.
PassedThrough(r) ==
    [r |-> r, p1 |-> "pass", seen |-> <<>>, overlap |-> FALSE, ns |-> 0, net |-> None, had |-> None,
     resp |-> Pending, p2 |-> "pass", net2 |-> None]

\* C12: a request whose method is not GET is never intercepted, whatever
\* its destination and origin: neither listener calls respondWith or starts
\* a lookup, a fetch or a write for it, and its dispatch leaves the
\* partitions and the pending writes as they were.
C12_NonGetPassesThrough ==
    /\ [](\A q \in 1..Len(reqs) :
            reqs[q].r.method # "GET" => reqs[q] = PassedThrough(reqs[q].r))
    /\ [][(Len(reqs') > Len(reqs) /\ reqs'[Len(reqs')].r.method # "GET") =>
            (caches' = caches /\ puts' = puts)]_vars

C12_Witness ==
    /\ \E q \in 1..Len(reqs) :
          /\ reqs[q].r.method = "POST"
          /\ reqs[q].r.dest = "document"
          /\ reqs[q].r.origin = location_origin
    /\ \E q \in 1..Len(reqs) :
          /\ reqs[q].r.method = "POST"
          /\ reqs[q].r.origin # location_origin

\* The requests handleImageRequest was given.
Images == {q \in 1..Len(reqs) : HandlerOf(reqs[q].r) = "handleImageRequest"
                                /\ reqs[q].p1 # "pass"}

\* C14: image handling uses only the runtime partition.  An image request
\* answered from cache was answered with the runtime partition's entry for
\* its key, and a step of an image request that starts a write starts it
\* on the runtime partition.
C14_ImageRuntimeOnly ==
    /\ [](\A q \in Images :
            (Finished(q) /\ reqs[q].ns = 0) =>
                \E i \in 1..Len(reqs[q].seen) :
                    /\ reqs[q].seen[i][1] = RUNTIME_CACHE
                    /\ reqs[q].resp = reqs[q].seen[i][2])
    /\ [][\A q \in Images :
            reqs'[q] # reqs[q] =>
                \A p \in puts' \ puts : p.name = RUNTIME_CACHE]_vars

\* Every response a partition holds or a pending write carries.
StoredResponses ==
    UNION {{cs.entries[k] : k \in DOMAIN cs.entries} : cs \in Range(caches)}
        \cup {p.resp : p \in puts}

\* C15: every entry the retrieval strategies write is a status-200
\* response.  When the network answers a handler, of any of the four
\* categories, with another status, the handler returns that response at
\* once and the step leaves the partitions and the pending writes as they
\* were.
C15_OnlyStatus200Stored ==
    /\ [](\A resp \in StoredResponses : resp.status = 200)
    /\ [](\A q \in 1..Len(reqs) :
            reqs[q].ns \notin {0, -1, 200} =>
                (Finished(q) /\ reqs[q].resp.status = reqs[q].ns))
    /\ [][\A q \in 1..Len(reqs) :
            (reqs[q].p1 = "net" /\ reqs'[q].ns \notin {0, -1, 200}) =>
                (caches' = caches /\ puts' = puts)]_vars

C15_Witness ==
    /\ \A h \in {"handleDocumentRequest", "handleOtherRequest"} :
          \E q \in 1..Len(reqs) :
              /\ HandlerOf(reqs[q].r) = h
              /\ Finished(q)
              /\ reqs[q].resp.status = 500
    /\ puts = {}

\* C19: once activation has completed, every partition that exists, and
\* every partition a pending write is directed to, is the static or the
\* runtime partition.
C19_OnlyCurrentPartitions ==
    (swState = "activated") =>
        /\ Names(caches) \subseteq {STATIC_CACHE, RUNTIME_CACHE}
        /\ \A p \in puts : p.name \in {STATIC_CACHE, RUNTIME_CACHE}

\* The requests given to a cache-first handler.
CacheFirst ==
    {q \in 1..Len(reqs) :
        /\ reqs[q].p1 # "pass"
        /\ HandlerOf(reqs[q].r) # "handleOtherRequest"}

\* The requests whose handler fetched a status-200 response for the key
\* and stores into the partition called name.
Writers(name, key) ==
    {q \in 1..Len(reqs) :
        /\ reqs[q].p1 # "pass"
        /\ RequestKey(reqs[q].r) = key
        /\ StoreOf(HandlerOf(reqs[q].r)) = name
        /\ reqs[q].ns = 200}

\* A pending write of a handler of listener 1 completes in this step and
\* replaces an entry.
Overwrites(p) ==
    /\ p.name \in {STATIC_CACHE, RUNTIME_CACHE}
    /\ p \in puts
    /\ p \notin puts'
    /\ p.key \in DOMAIN Entries(caches, p.name)

\* A cache-first handler goes to the network only after its own lookup of
\* the key missed in every partition.
WriteOnlyAfterMiss ==
    \A q \in CacheFirst : reqs[q].ns # 0 => reqs[q].seen = <<>>

\* An entry of the static or the runtime partition is a status-200
\* response that a request for its key fetched.
EntryIsFetched ==
    \A name \in {STATIC_CACHE, RUNTIME_CACHE} :
        \A key \in DOMAIN Entries(caches, name) :
            \E q \in Writers(name, key) :
                /\ Finished(q)
                /\ reqs[q].resp = Entries(caches, name)[key]
                /\ reqs[q].resp.status = 200

\* C20 (as stated): the cache-first handlers write a key only after their
\* own lookup missed; an entry is replaced by a write of theirs only when
\* another request for the key was in flight, its handler still running,
\* when one of the writing requests arrived; and the entry that remains is
\* one of the fetched status-200 responses.
C20_NoOverwriteUnlessInFlight ==
    /\ []WriteOnlyAfterMiss
    /\ [][\A p \in puts :
            (Overwrites(p) /\ Writers(p.name, p.key) \subseteq CacheFirst) =>
                \E q \in Writers(p.name, p.key) : reqs[q].overlap]_vars
    /\ []EntryIsFetched

\* C20 (amended): the cache-first handlers write a key only after their
\* own lookup missed; an entry is replaced by a write of theirs only when
\* two requests for the key both missed, the second lookup coming before
\* the write of the first has completed, be it while the first handler
\* runs or after it returned with its cache.put pending; and the entry
\* that remains is one of the fetched status-200 responses.
C20_OverwriteOnlyAfterTwoMisses ==
    /\ []WriteOnlyAfterMiss
    /\ [][\A p \in puts :
            (Overwrites(p) /\ Writers(p.name, p.key) \subseteq CacheFirst) =>
                /\ Cardinality(Writers(p.name, p.key)) >= 2
                /\ \A q \in Writers(p.name, p.key) : reqs[q].seen = <<>>]_vars
    /\ []EntryIsFetched

C20_Witness ==
    \E key \in Origins \X Paths :
        /\ Cardinality(Writers(STATIC_CACHE, key)) = 2
        /\ Writers(STATIC_CACHE, key) \subseteq CacheFirst
        /\ \A q \in Writers(STATIC_CACHE, key) : Finished(q) /\ reqs[q].seen = <<>>
        /\ reqs[1].resp # reqs[2].resp
        /\ puts = {}
        /\ MatchIn(caches, STATIC_CACHE, key) = reqs[1].resp

\* C16: a storage failure during the handling of a document request never
\* leaves it without a response: the handler does not end with a failure,
\* it returns the network's response when the network gave one, and no
\* rejection, the one of the best-effort cache write included, is left
\* without a handler.
C16_StorageFailureAnswered ==
    /\ unhandled = {}
    /\ \A q \in Documents :
          Finished(q) =>
              /\ reqs[q].resp # Failure
              /\ reqs[q].ns \in {200, 500} => reqs[q].resp.status = reqs[q].ns

-----------------------------------------------------------------------------
(* Claims about notifications                                               *)

\* The notifications displayed for the push event numbered n.
ShownFor(n) == {j \in 1..Len(shown) : shown[j].push = n}

\* The value the payload of a push gives to a field, "" when it gives none.
Override(d, f) ==
    IF d.kind = "json" /\ \E pr \in d.obj : pr[1] = f
    THEN (CHOOSE pr \in d.obj : pr[1] = f)[2]
    ELSE ""

\* C18: every push signal ends in exactly one displayed notification.  With
\* no payload or one that cannot be parsed it equals the default template
\* in every field; with a parsed payload every field of the payload has the
\* payload's value and every other field the template's.
C18_OneNotificationPerPush ==
    \A n \in 1..Len(pushes) :
        /\ Cardinality(ShownFor(n)) = 1
        /\ \A j \in ShownFor(n) :
              /\ shown[j].title = shown[j].options.title
              /\ \A f \in DOMAIN notificationData :
                    shown[j].options[f] =
                        IF Override(pushes[n], f) # "" THEN Override(pushes[n], f)
                        ELSE notificationData[f]
              /\ \A pr \in pushes[n].obj : shown[j].options[pr[1]] = pr[2]

\* C17: on a notification interaction the notification is closed.  For the
\* dismiss action nothing is focused or opened.  For any other action an
\* open window of the worker's origin is focused when there is one, and a
\* window is opened at "/" only when there is none: never both, never more
\* than one, and never a focus of a window of another origin.
C17_FocusOrOpen ==
    \A c \in 1..Len(clicks) :
        /\ clicks[c].closed >= 1
        /\ clicks[c].action = "dismiss" =>
              (clicks[c].focus = <<>> /\ clicks[c].open = <<>>)
        /\ \A i \in 1..Len(clicks[c].focus) :
              clicks[c].focus[i].origin = location_origin
        /\ (clicks[c].action # "dismiss" /\ clicks[c].pc1 = "done") =>
              IF clicks[c].had
              THEN Len(clicks[c].focus) = 1 /\ clicks[c].open = <<>>
              ELSE clicks[c].focus = <<>> /\ clicks[c].open = <<"/">>

====
